---- MODULE Spec2Model ----
(***************************************************************************)
(* Three firmware images for an Arduino Due class board:                   *)
(*   adder             averages two scaled analog inputs onto DAC0/DAC1    *)
(*   limit_monitoring  drives pin 40 from a threshold on scaled input A1   *)
(*   pulsar            toggles DAC1 and pin 45 every FREQUENCY millis      *)
(* Exactly one image is flashed (prog); its loop() is polled forever.      *)
(***************************************************************************)
EXTENDS Integers, Sequences, FiniteSets, TLC

VARIABLES prog,        \* the image that was flashed
          a0, a1,      \* raw samples returned by analogRead in the latest poll
          value0, value1, temperature,  \* loop locals of the latest poll
          dac0, dac1,  \* last value written by analogWrite, <<>> before any write
          pin40, pin45,\* last level written by digitalWrite
          mult, last,  \* pulsar statics
          now,         \* the millisecond counter, unsigned W bits
          sinceLast,   \* history: real milliseconds since `last` was assigned
          first,       \* history: what the first poll read and wrote
          repolled     \* history: a poll after the first one has run

vars == <<prog, a0, a1, value0, value1, temperature, dac0, dac1, pin40, pin45,
          mult, last, now, sinceLast, first, repolled>>

-----------------------------------------------------------------------------
(* Bounds of the model *)
W == 8              \* width of int / unsigned long in bits (32 on the board)
MaxBoot == 2        \* millis() seen by setup() is in 0..MaxBoot
MaxJitter == 1      \* delay(GRAIN) plus loop overhead takes GRAIN..GRAIN+MaxJitter
AdderGrid == 5      \* the adder's samples: AdderGrid+1 evenly spaced points and edges
MonitorGrid == 64   \* the monitor's samples: MonitorGrid+1 evenly spaced points and edges

(* Program constants *)
ADCMax == 1023
voltage == 330      \* 3.3 V, in hundredths of a volt
dac_lo == 55        \* 0.55 V
dac_hi == 275       \* 2.75 V
out_min == 0
out_max == 255
GRAIN == 1
FREQUENCY == 100
HIGH == "HIGH"
LOW == "LOW"
FLOATING == "FLOATING"   \* level of a pin no digitalWrite has driven yet

-----------------------------------------------------------------------------
(* C++ integer arithmetic *)

RECURSIVE Pow2(_)
Pow2(n) == IF n = 0 THEN 1 ELSE 2 * Pow2(n - 1)

Abs(x) == IF x < 0 THEN -x ELSE x

\* C++ integer division truncates toward zero (b > 0)
TruncDiv(a, b) == IF a >= 0 THEN a \div b ELSE -((-a) \div b)

\* conversion of a signed int to unsigned of the same width
ToUnsigned(x) == x % Pow2(W)

\* conversion of an unsigned value to int of the same width (two's complement)
ToSigned(u) == IF u >= Pow2(W - 1) THEN u - Pow2(W) ELSE u

\* float lo / hi converted to the long parameters of map():
\* 1023 / (voltage / dac_lo) = 170.5 and 1023 / (voltage / dac_hi) = 852.5,
\* truncated by the float -> long conversion (float rounding error is far
\* below the .5 fraction).
lo == (ADCMax * dac_lo) \div voltage
hi == (ADCMax * dac_hi) \div voltage

\* variant: divides by in_max instead of the width of the input range
map_by_max(x, in_min, in_max, omin, omax) ==
    TruncDiv((x - in_min) * (omax - omin), in_max) + omin

\* Arduino's long map(long x, long in_min, long in_max, long out_min, long out_max)
map(x, in_min, in_max, omin, omax) ==
    TruncDiv((x - in_min) * (omax - omin), in_max - in_min) + omin

\* variant: the scaled value is clamped to the output range on reading
analog_read_clamped(s) ==
    LET m == map(s, lo, hi, out_min, out_max)
    IN IF m < out_min THEN out_min ELSE IF m > out_max THEN out_max ELSE m

\* analog_read(pin) applied to the raw sample s the pin delivers
analog_read(s) == map(s, lo, hi, out_min, out_max)

\* variant: no clamping
constrain_none(amt, low, high) == amt

\* Arduino's constrain(amt, low, high)
constrain(amt, low, high) == IF amt < low THEN low ELSE IF amt > high THEN high ELSE amt

\* (value0 + value1) / 2 in int arithmetic
Average(v0, v1) == TruncDiv(v0 + v1, 2)

\* variant: compares with >= against the truncated threshold
ExceedsLimitTrunc(t) == t >= 229

\* variant: a lower release threshold once the pin is HIGH
ExceedsLimitHyst(t) == IF pin40 = HIGH THEN 2 * t > 439 ELSE 2 * t > 459

\* temperature > 229.5 : the int is promoted to double, compared in halves
ExceedsLimit(t) == 2 * t > 459

\* variant: the difference is taken in a wider signed type, without wrapping
ElapsedWide(t, l) == t - l

\* t - last > FREQUENCY : last is converted to unsigned, the difference wraps
Elapsed(t, l) == (t - ToUnsigned(l)) % Pow2(W)

\* variant: non-strict comparison
PeriodOverGe(t, l) == Elapsed(t, l) >= FREQUENCY

PeriodOver(t, l) == Elapsed(t, l) > FREQUENCY

\* levels written by a transition of the generator
\* variant: the flag is flipped before the levels are written
PulsarAnalogNew(m) == Abs(1 - m) * 255

PulsarAnalog(m) == m * 255

PulsarDigital(m) == IF m # 0 THEN HIGH ELSE LOW

\* variant: the flag is never flipped
FlipNever(m) == m

Flip(m) == Abs(1 - m)

\* variant: no delay, and polls faster than the counter's resolution
DelayNone == {0}

\* real time taken by delay(GRAIN) and the rest of the poll
Delay == GRAIN .. (GRAIN + MaxJitter)

-----------------------------------------------------------------------------
(* Samples the ADC delivers *)

AllSamples == 0 .. ADCMax

Grid(n) == { (i * ADCMax) \div n : i \in 0 .. n }

AdderSamples == Grid(AdderGrid) \cup {lo, hi}

MonitorSamples == Grid(MonitorGrid)
                  \cup { s \in AllSamples : \/ s \in (lo - 1) .. (lo + 1)
                                            \/ s \in (hi - 1) .. (hi + 1)
                                            \/ analog_read(s) \in 229 .. 230 }

-----------------------------------------------------------------------------
Init ==
    /\ prog \in {"adder", "monitor", "pulsar"}
    /\ a0 = 0 /\ a1 = 0
    /\ value0 = 0 /\ value1 = 0 /\ temperature = 0
    /\ dac0 = <<>> /\ dac1 = <<>>
    /\ pin40 = FLOATING /\ pin45 = FLOATING
    /\ mult = 0
    /\ now \in IF prog = "pulsar" THEN 0 .. MaxBoot ELSE {0}
    /\ last = ToSigned(now)          \* setup(): last = millis()
    /\ sinceLast = 0
    /\ first = <<>>
    /\ repolled = FALSE

\* adder: loop()
AdderLoop ==
    /\ prog = "adder"
    /\ \E s0 \in AdderSamples, s1 \in AdderSamples :
         LET v0  == analog_read(s0)
             v1  == analog_read(s1)
             sum == Average(v0, v1)
             out == constrain(sum, 0, 255)
         IN /\ a0' = s0 /\ a1' = s1
            /\ value0' = v0 /\ value1' = v1
            /\ dac0' = <<out>>
            /\ dac1' = <<out>>
            /\ first' = IF first = <<>>
                        THEN << [in |-> <<s0, s1>>, out |-> <<out, out>>] >>
                        ELSE first
            /\ repolled' = (first # <<>>)
    /\ UNCHANGED <<prog, temperature, pin40, pin45, mult, last, now, sinceLast>>

\* limit_monitoring: loop()
MonitorLoop ==
    /\ prog = "monitor"
    /\ \E s \in MonitorSamples :
         LET temp  == analog_read(s)
             level == IF ExceedsLimit(temp) THEN HIGH ELSE LOW
         IN /\ a1' = s
            /\ temperature' = temp
            /\ pin40' = level
            /\ first' = IF first = <<>>
                        THEN << [in |-> <<s>>, out |-> <<level>>] >>
                        ELSE first
            /\ repolled' = (first # <<>>)
    /\ UNCHANGED <<prog, a0, value0, value1, dac0, dac1, pin45, mult, last, now, sinceLast>>

\* pulsar: loop()
PulsarLoop ==
    /\ prog = "pulsar"
    /\ LET t == now
       IN \E d \in Delay :
            /\ IF PeriodOver(t, last)
               THEN /\ dac1' = << PulsarAnalog(mult) >>
                    /\ pin45' = PulsarDigital(mult)
                    /\ mult' = Flip(mult)
                    /\ last' = ToSigned(t)
                    /\ sinceLast' = d
               ELSE /\ UNCHANGED <<dac1, pin45, mult, last>>
                    /\ sinceLast' = sinceLast + d
            /\ now' = (now + d) % Pow2(W)
    /\ UNCHANGED <<prog, a0, a1, value0, value1, temperature, dac0, pin40, first, repolled>>

Next == AdderLoop \/ MonitorLoop \/ PulsarLoop

Spec == Init /\ [][Next]_vars

\* the board's runtime calls loop() again and again
LiveSpec == Spec /\ WF_vars(PulsarLoop)

-----------------------------------------------------------------------------
(* Arithmetic stated as relations, independent of the operators above *)

\* m is the quotient, truncated toward zero, of (s - lo) * 255 by (hi - lo)
IsScaled(s, m) ==
    LET num == (s - lo) * 255
        den == hi - lo
    IN IF num >= 0 THEN den * m <= num /\ num < den * (m + 1)
                   ELSE den * (m - 1) < num /\ num <= den * m

\* q is x / 2 truncated toward zero
IsHalf(x, q) == IF x >= 0 THEN 2 * q <= x /\ x <= 2 * q + 1
                          ELSE 2 * q - 1 <= x /\ x <= 2 * q

Clamped(q) == IF q < 0 THEN 0 ELSE IF q > 255 THEN 255 ELSE q

PulsarChanged == mult' # mult \/ last' # last \/ dac1' # dac1 \/ pin45' # pin45

-----------------------------------------------------------------------------
\* C1 (as stated): on every poll of the generator where the elapsed time
\* exceeds 100, the flag is flipped, the levels written in that poll are
\* those of the NEW flag value (255 / HIGH for 1, 0 / LOW for 0), and last
\* is set to that poll's t.
C1_Original ==
    [][ (prog = "pulsar" /\ sinceLast > 100)
        => /\ mult' = 1 - mult
           /\ dac1' = << 255 * mult' >>
           /\ pin45' = (IF mult' = 1 THEN HIGH ELSE LOW)
           /\ (last' - now) % Pow2(W) = 0 ]_vars

\* C1 (amended): on every poll of the generator where the elapsed time
\* exceeds 100, the levels written are those of the flag value BEFORE the
\* flip (255 / HIGH for 1, 0 / LOW for 0), the flag is then flipped, and last
\* is set to that poll's t; the first transition writes 0 and LOW.
C1_Amended ==
    [][ (prog = "pulsar" /\ sinceLast > 100)
        => /\ mult' = 1 - mult
           /\ dac1' = << 255 * mult >>
           /\ pin45' = (IF mult = 1 THEN HIGH ELSE LOW)
           /\ (last' - now) % Pow2(W) = 0
           /\ (dac1 = <<>> => dac1' = <<0>> /\ pin45' = LOW) ]_vars

\* the first transition has happened
C1_Witness ==
    prog = "pulsar" /\ mult = 1 /\ dac1 = <<0>> /\ pin45 = LOW /\ sinceLast <= GRAIN + MaxJitter

\* C2: on a poll of the generator where the elapsed time is at most 100
\* (exactly 100 included), mult, last, the analog and the digital output are
\* unchanged; so a transition happens only more than 100 time units after
\* the previous one.
C2_NoChangeWithinPeriod ==
    [][ (prog = "pulsar" /\ sinceLast <= 100)
        => UNCHANGED <<mult, last, dac1, pin45>> ]_vars

\* polls have run through elapsed time 100 without a transition
C2_Witness ==
    prog = "pulsar" /\ dac1 = <<0>> /\ mult = 1 /\ sinceLast = 101

\* C3: one poll of the averager writes the same value to DAC0 and DAC1, and
\* that value is clamp(trunc((map(s0) + map(s1)) / 2), 0, 255) with map the
\* unclamped truncating linear mapping of [lo, hi] onto [0, 255].
C3_Averager ==
    (prog = "adder" /\ dac0 # <<>>)
    => /\ dac1 = dac0
       /\ IsScaled(a0, value0)
       /\ IsScaled(a1, value1)
       /\ \E q \in (-ADCMax) .. ADCMax :
             IsHalf(value0 + value1, q) /\ dac0 = << Clamped(q) >>

\* a sample below lo averaged with hi: (-63 + 255) / 2 = 96, where the
\* average of the individually clamped values would be 127
C3_Witness ==
    prog = "adder" /\ a0 = 0 /\ a1 = hi /\ value0 = -63 /\ dac0 = <<96>> /\ dac1 = <<96>>

\* C4: every value written to DAC0 or DAC1, by the averager or by the
\* generator, lies in 0..255.
C4_DacRange ==
    /\ \A i \in DOMAIN dac0 : dac0[i] \in 0 .. 255
    /\ \A i \in DOMAIN dac1 : dac1[i] \in 0 .. 255

\* the averager wrote a value whose average was out of range
C4_Witness ==
    prog = "adder" /\ value0 + value1 > 2 * 255 /\ dac0 = <<255>> /\ dac1 = <<255>>

\* C5: after each poll of the monitor pin 40 is HIGH if and only if the
\* scaled value of the sample read from A1 is at least 230, and LOW
\* otherwise; 229 gives LOW and 230 gives HIGH.
C5_Threshold ==
    (prog = "monitor" /\ first # <<>>)
    => /\ IsScaled(a1, temperature)
       /\ pin40 \in {HIGH, LOW}
       /\ (pin40 = HIGH <=> temperature >= 230)
       /\ (temperature = 229 => pin40 = LOW)
       /\ (temperature = 230 => pin40 = HIGH)

\* a poll read a sample that scales to exactly 230
C5_Witness ==
    prog = "monitor" /\ temperature = 230 /\ pin40 = HIGH /\ repolled

\* C6: the scaling maps lo to 0 and hi to 255, is the (truncated) linear
\* interpolation between lo and hi, and is monotonically non-decreasing in
\* the raw sample.
C6_Scaling ==
    /\ [] ( (prog = "monitor" /\ first # <<>>)
            => /\ (a1 = 170 => temperature = 0)
               /\ (a1 = 852 => temperature = 255)
               /\ (a1 \in 170 .. 852
                     => /\ 682 * temperature <= 255 * (a1 - 170)
                        /\ 255 * (a1 - 170) < 682 * (temperature + 1)) )
    /\ [] ( (prog = "adder" /\ first # <<>>)
            => /\ (a0 = 170 => value0 = 0)
               /\ (a0 = 852 => value0 = 255)
               /\ (a1 = 170 => value1 = 0)
               /\ (a1 = 852 => value1 = 255) )
    /\ [][ (prog = "monitor" /\ first # <<>> /\ a1' >= a1)
           => temperature' >= temperature ]_vars
    /\ [][ (prog = "adder" /\ first # <<>> /\ a0' >= a0 /\ a1' >= a1)
           => (value0' >= value0 /\ value1' >= value1) ]_vars

\* a poll read exactly hi after an earlier poll
C6_Witness ==
    prog = "monitor" /\ a1 = hi /\ temperature = 255 /\ repolled

\* C7: monitor and averager carry no state: a poll that reads the samples
\* the first poll read writes what the first poll wrote, whatever was read
\* and written in between.
C7_Stateless ==
    /\ (prog = "adder" /\ first # <<>> /\ first[1].in = <<a0, a1>>)
       => first[1].out = <<dac0[1], dac1[1]>>
    /\ (prog = "monitor" /\ first # <<>> /\ first[1].in = <<a1>>)
       => first[1].out = <<pin40>>

\* a later poll read the sample the first poll read, just below the limit
C7_Witness ==
    /\ prog = "monitor" /\ repolled
    /\ first[1].in = <<a1>> /\ temperature = 229 /\ pin40 = LOW

\* C8: every poll of the generator advances time, and under fair polling
\* the flag toggles infinitely often.
C8_Liveness ==
    /\ [][ prog = "pulsar" => now' # now ]_vars
    /\ (prog = "pulsar" => ([]<>(mult = 0) /\ []<>(mult = 1)))

\* the flag has gone to 1 and come back to 0
C8_Witness ==
    prog = "pulsar" /\ mult = 0 /\ dac1 = <<255>> /\ sinceLast > FREQUENCY

\* C9: mult is 0 or 1; once written, the analog and digital output agree
\* (255 with HIGH, 0 with LOW); successive transitions write alternating
\* levels.
C9_Consistency ==
    /\ [] ( prog = "pulsar"
            => /\ mult \in {0, 1}
               /\ (dac1 # <<>> \/ pin45 # FLOATING)
                    => \/ (dac1 = <<255>> /\ pin45 = HIGH)
                       \/ (dac1 = <<0>> /\ pin45 = LOW) )
    /\ [][ (prog = "pulsar" /\ dac1 # <<>> /\ last' # last)
           => (dac1' # dac1 /\ pin45' # pin45) ]_vars

\* the second transition has just written 255 / HIGH over 0 / LOW
C9_Witness ==
    prog = "pulsar" /\ dac1 = <<255>> /\ pin45 = HIGH /\ mult = 0 /\ sinceLast <= GRAIN + MaxJitter

\* C10: with a W-bit wrapping counter and last held in a signed int of the
\* same width, the elapsed time the test computes is the true elapsed time,
\* so a transition happens exactly on the polls whose true elapsed time
\* exceeds 100, also across a wrap and with last negative.
C10_WrapAround ==
    /\ [] ( prog = "pulsar"
            => /\ last \in (-Pow2(W - 1)) .. (Pow2(W - 1) - 1)
               /\ now \in 0 .. (Pow2(W) - 1)
               /\ (now - last) % Pow2(W) = sinceLast )
    /\ [][ prog = "pulsar" => ((sinceLast > 100) <=> PulsarChanged) ]_vars

\* last is negative, the counter has wrapped since, and the period is over
C10_Witness ==
    prog = "pulsar" /\ last < 0 /\ now < last + Pow2(W) /\ sinceLast > 100

====
